---- MODULE Spec2Model ----
(***************************************************************************)
(* Model of the vulnerability-DB acquisition and release code of vuls      *)
(* (detector: NewDBClient, NewCveDB, NewOvalDB, NewGostDB, NewExploitDB,   *)
(* NewMetasploitDB, DBClient.CloseDB) and of its Azure Blob report writer  *)
(* (reporter: AzureBlobWriter.Write, CheckIfAzureContainerExists).         *)
(*                                                                         *)
(* One run of NewDBClient is modelled as five steps, one per resource in   *)
(* the order of the source; each step is the call of the per-resource open *)
(* routine together with the branch NewDBClient takes on its result.  The  *)
(* file system (os.Stat) and the external drivers (NewDB, CloseDB) are the *)
(* environment: their answers are chosen nondeterministically.             *)
(***************************************************************************)
EXTENDS Integers, Sequences, FiniteSets, TLC

VARIABLES
    cnf,            \* DBClientConf: per kind its Type, SQLite3Path and URL
    pc,             \* position of NewDBClient: the kind opened next, or "returned"
    drivers,        \* NewDBClient's locals cveDriver, ovaldb, gostdb, exploitdb, metasploitdb
    res,            \* what each per-resource open routine returned (NotCalled before)
    drvOut,         \* what the external driver's NewDB returned (NotCalled if never called)
    fileExists,     \* the file-system state each step met ("unknown" before the step)
    statCalls,      \* number of os.Stat calls per kind
    newDBCalls,     \* number of driver NewDB calls per kind
    log,            \* sequence of logging.Log.Warnf entries
    ret,            \* NewDBClient's results (dbclient, locked, err)
    openHandles,    \* driver handles opened and not yet successfully closed
    closeCalls,     \* number of DBClient.CloseDB calls made on the returned client
    closeAttempts,  \* per kind, number of driver CloseDB calls on its handle
    lastClose,      \* the last DBClient.CloseDB call: attempts, failed closes, errs
    w,              \* the AzureBlobWriter: its four format flags and Gzip
    rs,             \* the scan results given to AzureBlobWriter.Write
    blobs,          \* names of the objects stored in the Azure container, in upload order
    writeOut,       \* AzureBlobWriter.Write's call: its environment, calls made and error
    checkOut        \* CheckIfAzureContainerExists' call: its environment and error

vars == <<cnf, pc, drivers, res, drvOut, fileExists, statCalls, newDBCalls, log,
          ret, openHandles, closeCalls, closeAttempts, lastClose,
          w, rs, blobs, writeOut, checkOut>>

acquireVars == <<cnf, pc, drivers, res, drvOut, fileExists, statCalls, newDBCalls,
                 log, ret>>

releaseVars == <<closeCalls, closeAttempts, lastClose>>

azureVars == <<w, rs, blobs, writeOut, checkOut>>

-----------------------------------------------------------------------------
(* Bounds *)

\* number of DBClient.CloseDB calls explored on one returned client
MaxCloseCalls == 3

\* longest sequence of scan results given to AzureBlobWriter.Write
MaxResults == 2

\* longest container listing ListContainers returns
MaxContainers == 2

-----------------------------------------------------------------------------
(* Values *)

Order == <<"cve", "oval", "gost", "exploit", "metasploit">>

Kinds == {Order[i] : i \in 1..Len(Order)}

Types == {"http", "sqlite3", "mysql"}

\* a nil driver handle / nil interface value
Nil == "nil"

Handle(k) == "db:" \o k

\* a nil error
NoErr == [msg |-> "", cause |-> "", path |-> ""]

\* the error the external driver of kind k reports
DriverErr(k) == [msg |-> "driver:" \o k, cause |-> "", path |-> ""]

Errorf(msg, cause, path) == [msg |-> msg, cause |-> cause.msg, path |-> path]

\* a nil *DBClient, and a pointer to a DBClient
NilClient == <<>>

NotCalled == [driver |-> Nil, locked |-> FALSE, err |-> NoErr, called |-> FALSE]

Result(driver, locked, err) ==
    [driver |-> driver, locked |-> locked, err |-> err, called |-> TRUE]

\* what a driver's NewDB(type, path, debugSQL) may return: (driver, locked, err)
DriverResults(k) ==
    { Result(Handle(k), FALSE, NoErr),
      Result(Nil, FALSE, DriverErr(k)),
      Result(Nil, TRUE, DriverErr(k)),
      Result(Handle(k), TRUE, NoErr) }

SQLite3Path(k) == "/vuls/" \o k \o ".sqlite3"

URL(k) == "db://" \o k

Conf(k, t) == [Type |-> t, SQLite3Path |-> SQLite3Path(k), URL |-> URL(k)]

IsFetchViaHTTP(c) == c.Type = "http"

Warn(k, what, path) == [kind |-> k, what |-> what, path |-> path]

-----------------------------------------------------------------------------
(* The per-resource open routines.  c is the DBClientConf, exists the answer  *)
(* of os.Stat for the resource's SQLite3Path (FALSE: os.IsNotExist), drv the  *)
(* (driver, locked, err) the external driver's NewDB returns if it is called. *)
(* Each returns its Go results in out, with the calls it made and the         *)
(* warnings it logged.                                                        *)

Ran(out, stat, newdb, warn, drv) ==
    [out |-> out, stat |-> stat, newdb |-> newdb, warn |-> warn, drv |-> drv]

Path(dict) == IF dict.Type = "sqlite3" THEN dict.SQLite3Path ELSE dict.URL

StatCalls(dict) == IF dict.Type = "sqlite3" THEN 1 ELSE 0


\* NewCveDB without the os.Stat probe of lines 101-104
NewCveDB_NoProbe(c, exists, drv) ==
    IF IsFetchViaHTTP(c.CveDictCnf)
    THEN Ran(Result(Nil, FALSE, NoErr), 0, 0, <<>>, NotCalled)
    ELSE IF drv.err # NoErr
    THEN Ran(Result(Nil, drv.locked,
                    Errorf("Failed to init CVE DB", drv.err, Path(c.CveDictCnf))),
             0, 1, <<>>, drv)
    ELSE Ran(Result(drv.driver, FALSE, NoErr), 0, 1, <<>>, drv)

NewCveDB(c, exists, drv) ==
    IF IsFetchViaHTTP(c.CveDictCnf)
    THEN Ran(Result(Nil, FALSE, NoErr), 0, 0, <<>>, NotCalled)
    ELSE IF c.CveDictCnf.Type = "sqlite3" /\ ~exists
    THEN Ran(Result(Nil, FALSE, NoErr), 1, 0,
                <<Warn("cve", "file not found", c.CveDictCnf.SQLite3Path)>>, NotCalled)
    ELSE IF drv.err # NoErr
    THEN Ran(Result(Nil, drv.locked,
                       Errorf("Failed to init CVE DB", drv.err, Path(c.CveDictCnf))),
                StatCalls(c.CveDictCnf), 1, <<>>, drv)
    ELSE Ran(Result(drv.driver, FALSE, NoErr), StatCalls(c.CveDictCnf), 1, <<>>, drv)


\* NewOvalDB passing the driver's locked flag through on success
NewOvalDB_KeepLocked(c, exists, drv) ==
    IF IsFetchViaHTTP(c.OvalDictCnf)
    THEN Ran(Result(Nil, FALSE, NoErr), 0, 0, <<>>, NotCalled)
    ELSE IF c.OvalDictCnf.Type = "sqlite3" /\ ~exists
    THEN Ran(Result(Nil, FALSE, NoErr), 1, 0,
             <<Warn("oval", "file not found", c.OvalDictCnf.SQLite3Path)>>, NotCalled)
    ELSE IF drv.err # NoErr
    THEN Ran(Result(Nil, drv.locked, Errorf("Failed to new OVAL DB", drv.err, "")),
             StatCalls(c.OvalDictCnf), 1, <<>>, drv)
    ELSE Ran(Result(drv.driver, drv.locked, NoErr), StatCalls(c.OvalDictCnf), 1, <<>>, drv)

NewOvalDB(c, exists, drv) ==
    IF IsFetchViaHTTP(c.OvalDictCnf)
    THEN Ran(Result(Nil, FALSE, NoErr), 0, 0, <<>>, NotCalled)
    ELSE IF c.OvalDictCnf.Type = "sqlite3" /\ ~exists
    THEN Ran(Result(Nil, FALSE, NoErr), 1, 0,
                <<Warn("oval", "file not found", c.OvalDictCnf.SQLite3Path)>>, NotCalled)
    ELSE IF drv.err # NoErr
    THEN IF drv.locked
         THEN Ran(Result(Nil, TRUE, Errorf("Failed to new OVAL DB", drv.err, "")),
                     StatCalls(c.OvalDictCnf), 1, <<>>, drv)
         ELSE Ran(Result(Nil, FALSE, Errorf("Failed to new OVAL DB", drv.err, "")),
                     StatCalls(c.OvalDictCnf), 1, <<>>, drv)
    ELSE Ran(Result(drv.driver, FALSE, NoErr), StatCalls(c.OvalDictCnf), 1, <<>>, drv)


\* NewGostDB without the IsFetchViaHTTP return of lines 145-147
NewGostDB_NoHTTPCheck(c, exists, drv) ==
    IF c.GostCnf.Type = "sqlite3" /\ ~exists
    THEN Ran(Result(Nil, FALSE, NoErr), 1, 0,
             <<Warn("gost", "file not found", c.GostCnf.SQLite3Path)>>, NotCalled)
    ELSE IF drv.err # NoErr
    THEN IF drv.locked
         THEN Ran(Result(Nil, TRUE, Errorf("gostDB is locked", drv.err, "")),
                  StatCalls(c.GostCnf), 1, <<>>, drv)
         ELSE Ran(Result(Nil, FALSE, drv.err), StatCalls(c.GostCnf), 1, <<>>, drv)
    ELSE Ran(Result(drv.driver, FALSE, NoErr), StatCalls(c.GostCnf), 1, <<>>, drv)

NewGostDB(c, exists, drv) ==
    IF IsFetchViaHTTP(c.GostCnf)
    THEN Ran(Result(Nil, FALSE, NoErr), 0, 0, <<>>, NotCalled)
    ELSE IF c.GostCnf.Type = "sqlite3" /\ ~exists
    THEN Ran(Result(Nil, FALSE, NoErr), 1, 0,
                <<Warn("gost", "file not found", c.GostCnf.SQLite3Path)>>, NotCalled)
    ELSE IF drv.err # NoErr
    THEN IF drv.locked
         THEN Ran(Result(Nil, TRUE, Errorf("gostDB is locked", drv.err, "")),
                     StatCalls(c.GostCnf), 1, <<>>, drv)
         ELSE Ran(Result(Nil, FALSE, drv.err), StatCalls(c.GostCnf), 1, <<>>, drv)
    ELSE Ran(Result(drv.driver, FALSE, NoErr), StatCalls(c.GostCnf), 1, <<>>, drv)

NewExploitDB(c, exists, drv) ==
    IF IsFetchViaHTTP(c.ExploitCnf)
    THEN Ran(Result(Nil, FALSE, NoErr), 0, 0, <<>>, NotCalled)
    ELSE IF c.ExploitCnf.Type = "sqlite3" /\ ~exists
    THEN Ran(Result(Nil, FALSE, NoErr), 1, 0,
                <<Warn("exploit", "file not found", c.ExploitCnf.SQLite3Path)>>, NotCalled)
    ELSE IF drv.err # NoErr
    THEN IF drv.locked
         THEN Ran(Result(Nil, TRUE, Errorf("exploitDB is locked", drv.err, "")),
                     StatCalls(c.ExploitCnf), 1, <<>>, drv)
         ELSE Ran(Result(Nil, FALSE, drv.err), StatCalls(c.ExploitCnf), 1, <<>>, drv)
    ELSE Ran(Result(drv.driver, FALSE, NoErr), StatCalls(c.ExploitCnf), 1, <<>>, drv)


\* NewMetasploitDB without the Warnf of line 203 for a missing file
NewMetasploitDB_SilentMissing(c, exists, drv) ==
    IF IsFetchViaHTTP(c.MetasploitCnf)
    THEN Ran(Result(Nil, FALSE, NoErr), 0, 0, <<>>, NotCalled)
    ELSE IF c.MetasploitCnf.Type = "sqlite3" /\ ~exists
    THEN Ran(Result(Nil, FALSE, NoErr), 1, 0, <<>>, NotCalled)
    ELSE IF drv.err # NoErr
    THEN IF drv.locked
         THEN Ran(Result(Nil, TRUE, Errorf("metasploitDB is locked", drv.err, "")),
                  StatCalls(c.MetasploitCnf), 1, <<>>, drv)
         ELSE Ran(Result(Nil, FALSE, drv.err), StatCalls(c.MetasploitCnf), 1, <<>>, drv)
    ELSE Ran(Result(drv.driver, FALSE, NoErr), StatCalls(c.MetasploitCnf), 1, <<>>, drv)

NewMetasploitDB(c, exists, drv) ==
    IF IsFetchViaHTTP(c.MetasploitCnf)
    THEN Ran(Result(Nil, FALSE, NoErr), 0, 0, <<>>, NotCalled)
    ELSE IF c.MetasploitCnf.Type = "sqlite3" /\ ~exists
    THEN Ran(Result(Nil, FALSE, NoErr), 1, 0,
                <<Warn("metasploit", "file not found", c.MetasploitCnf.SQLite3Path)>>,
                NotCalled)
    ELSE IF drv.err # NoErr
    THEN IF drv.locked
         THEN Ran(Result(Nil, TRUE, Errorf("metasploitDB is locked", drv.err, "")),
                     StatCalls(c.MetasploitCnf), 1, <<>>, drv)
         ELSE Ran(Result(Nil, FALSE, drv.err), StatCalls(c.MetasploitCnf), 1, <<>>, drv)
    ELSE Ran(Result(drv.driver, FALSE, NoErr), StatCalls(c.MetasploitCnf), 1, <<>>, drv)

-----------------------------------------------------------------------------
(* NewDBClient's branch on each routine's result r: whether it returns there  *)
(* (abort, with the results ret) and what it logs.                            *)

Return(dbclient, locked, err) == [dbclient |-> dbclient, locked |-> locked, err |-> err]

NotReturned == Return(NilClient, FALSE, NoErr)

Branch(abort, r, warn) == [abort |-> abort, ret |-> r, warn |-> warn]


\* BranchCve treating an open failure of the CVE DB like an Optional one
BranchCve_Degrade(c, r) ==
    IF r.locked
    THEN Branch(TRUE, Return(NilClient, TRUE,
                             Errorf("CveDB is locked", NoErr, c.OvalDictCnf.SQLite3Path)),
                <<>>)
    ELSE IF r.err # NoErr
    THEN Branch(FALSE, NotReturned,
                <<Warn("cve", "Unable to use CveDB", c.CveDictCnf.SQLite3Path)>>)
    ELSE Branch(FALSE, NotReturned, <<>>)

BranchCve(c, r) ==
    IF r.locked
    THEN Branch(TRUE, Return(NilClient, TRUE,
                             Errorf("CveDB is locked", NoErr, c.OvalDictCnf.SQLite3Path)),
                <<>>)
    ELSE IF r.err # NoErr
    THEN Branch(TRUE, Return(NilClient, r.locked, r.err), <<>>)
    ELSE Branch(FALSE, NotReturned, <<>>)


\* BranchOval returning the open failure of the OVAL DB like the Critical one
BranchOval_Abort(c, r) ==
    IF r.locked
    THEN Branch(TRUE, Return(NilClient, TRUE,
                             Errorf("OvalDB is locked", NoErr, c.OvalDictCnf.SQLite3Path)),
                <<>>)
    ELSE IF r.err # NoErr
    THEN Branch(TRUE, Return(NilClient, r.locked, r.err), <<>>)
    ELSE Branch(FALSE, NotReturned, <<>>)

BranchOval(c, r) ==
    IF r.locked
    THEN Branch(TRUE, Return(NilClient, TRUE,
                             Errorf("OvalDB is locked", NoErr, c.OvalDictCnf.SQLite3Path)),
                <<>>)
    ELSE IF r.err # NoErr
    THEN Branch(FALSE, NotReturned,
                <<Warn("oval", "Unable to use OvalDB", c.OvalDictCnf.SQLite3Path)>>)
    ELSE Branch(FALSE, NotReturned, <<>>)


\* BranchGost logging a lock like any other failure instead of returning
BranchGost_NoAbort(c, r) ==
    IF r.locked \/ r.err # NoErr
    THEN Branch(FALSE, NotReturned,
                <<Warn("gost", "Unable to use gostDB", c.GostCnf.SQLite3Path)>>)
    ELSE Branch(FALSE, NotReturned, <<>>)

BranchGost(c, r) ==
    IF r.locked
    THEN Branch(TRUE, Return(NilClient, TRUE,
                             Errorf("gostDB is locked", NoErr, c.GostCnf.SQLite3Path)),
                <<>>)
    ELSE IF r.err # NoErr
    THEN Branch(FALSE, NotReturned,
                <<Warn("gost", "Unable to use gostDB", c.GostCnf.SQLite3Path)>>)
    ELSE Branch(FALSE, NotReturned, <<>>)


\* BranchExploit going on to the next resource after a lock
BranchExploit_NoAbort(c, r) ==
    IF r.locked \/ r.err # NoErr
    THEN Branch(FALSE, NotReturned,
                <<Warn("exploit", "Unable to use exploitDB", c.ExploitCnf.SQLite3Path)>>)
    ELSE Branch(FALSE, NotReturned, <<>>)

BranchExploit(c, r) ==
    IF r.locked
    THEN Branch(TRUE, Return(NilClient, TRUE,
                             Errorf("exploitDB is locked", NoErr, c.ExploitCnf.SQLite3Path)),
                <<>>)
    ELSE IF r.err # NoErr
    THEN Branch(FALSE, NotReturned,
                <<Warn("exploit", "Unable to use exploitDB", c.ExploitCnf.SQLite3Path)>>)
    ELSE Branch(FALSE, NotReturned, <<>>)

BranchMetasploit(c, r) ==
    IF r.locked
    THEN Branch(TRUE, Return(NilClient, TRUE,
                             Errorf("metasploitDB is locked", NoErr,
                                    c.MetasploitCnf.SQLite3Path)),
                <<>>)
    ELSE IF r.err # NoErr
    THEN Branch(FALSE, NotReturned,
                <<Warn("metasploit", "Unable to use metasploitDB",
                       c.MetasploitCnf.SQLite3Path)>>)
    ELSE Branch(FALSE, NotReturned, <<>>)


\* DBClient with the gost and exploit handles in each other's field
DBClient_Swapped(d) ==
    <<[CveDB |-> d["cve"], OvalDB |-> d["oval"], GostDB |-> d["exploit"],
       ExploitDB |-> d["gost"], MetasploitDB |-> d["metasploit"]]>>

\* the &DBClient{...} NewDBClient builds from its five locals
DBClient(d) ==
    <<[CveDB |-> d["cve"], OvalDB |-> d["oval"], GostDB |-> d["gost"],
       ExploitDB |-> d["exploit"], MetasploitDB |-> d["metasploit"]]>>

-----------------------------------------------------------------------------
(* DBClient.CloseDB.  d is the DBClient, closeErr[k] whether the driver's     *)
(* CloseDB of kind k's handle returns an error.  attempts lists the kinds     *)
(* whose handle got a close call, in order; errs is the returned slice.       *)


\* CloseDB returning at the first close that fails
CloseDB_ShortCircuit(d, closeErr) ==
    IF d.CveDB # Nil /\ closeErr["cve"]
    THEN [attempts |-> <<"cve">>,
          errs |-> <<Errorf("Failed to close cveDB", DriverErr("cve"), "")>>]
    ELSE LET cve  == IF d.CveDB # Nil THEN <<"cve">> ELSE <<>>
             oval == IF d.OvalDB # Nil THEN <<"oval">> ELSE <<>>
         IN  [attempts |-> cve \o oval,
              errs |-> IF d.OvalDB # Nil /\ closeErr["oval"]
                       THEN <<Errorf("Failed to close ovalDB", DriverErr("oval"), "")>>
                       ELSE <<>>]

CloseDB(d, closeErr) ==
    LET cve  == IF d.CveDB # Nil
                THEN [attempts |-> <<"cve">>,
                      errs |-> IF closeErr["cve"]
                               THEN <<Errorf("Failed to close cveDB", DriverErr("cve"), "")>>
                               ELSE <<>>]
                ELSE [attempts |-> <<>>, errs |-> <<>>]
        oval == IF d.OvalDB # Nil
                THEN [attempts |-> <<"oval">>,
                      errs |-> IF closeErr["oval"]
                               THEN <<Errorf("Failed to close ovalDB", DriverErr("oval"), "")>>
                               ELSE <<>>]
                ELSE [attempts |-> <<>>, errs |-> <<>>]
    IN  [attempts |-> cve.attempts \o oval.attempts, errs |-> cve.errs \o oval.errs]

-----------------------------------------------------------------------------
(* The Azure Blob report writer.  An object name is the sequence of the      *)
(* strings the code concatenates.  The environment of a Write call is env:   *)
(* cliErr (getBlobClient fails), failAt and failKind (the failAt-th          *)
(* createBlockBlob call fails, in gz or in the upload; 0: none fails) and    *)
(* marshalFail (json.Marshal fails for the result of that index; 0: none).   *)

\* c.Conf.Azure.ContainerName
ContainerName == "vuls"

ClientErr == [msg |-> "azure: client", cause |-> "", path |-> ""]

ListErr == [msg |-> "azure: list", cause |-> "", path |-> ""]

GzErr == [msg |-> "gz", cause |-> "", path |-> ""]

UploadErr == [msg |-> "azure: upload", cause |-> "", path |-> ""]

MarshalErr == [msg |-> "json: marshal", cause |-> "", path |-> ""]

\* r.ReportKeyName(): the timestamp/host-derived key of a result
ReportKeyName(r) == <<r.ScannedAt, "/", r.ServerName>>

\* createBlockBlob without the ".gz" suffix of line 116
createBlockBlob_NoGzSuffix(k, gzip, fail) ==
    IF gzip /\ fail = "gz"
    THEN [name |-> k, stored |-> FALSE, err |-> GzErr]
    ELSE IF fail = "upload"
    THEN [name |-> k, stored |-> FALSE, err |-> Errorf("Failed to upload data to", UploadErr, "")]
    ELSE [name |-> k, stored |-> TRUE, err |-> NoErr]

createBlockBlob(k, gzip, fail) ==
    IF gzip /\ fail = "gz"
    THEN [name |-> k, stored |-> FALSE, err |-> GzErr]
    ELSE LET name == IF gzip THEN k \o <<".gz">> ELSE k
         IN  IF fail = "upload"
             THEN [name |-> name, stored |-> FALSE,
                   err |-> Errorf("Failed to upload data to", UploadErr, "")]
             ELSE [name |-> name, stored |-> TRUE, err |-> NoErr]

\* Put without the `return err`: the uploads after a failed one still happen
Put_NoReturn(st, k, wr, env) ==
    LET n == st.puts + 1
        b == createBlockBlob(k, wr.Gzip, IF env.failAt = n THEN env.failKind ELSE "none")
    IN  [st EXCEPT !.puts = n,
                   !.uploads = IF b.stored THEN Append(@, b.name) ELSE @,
                   !.err = IF st.err # NoErr THEN st.err ELSE b.err]

\* one `if err := createBlockBlob(cli, k, b, w.Gzip); err != nil { return err }`
\* of Write; st holds Write's progress: uploads stored, createBlockBlob calls
\* (puts), getBlobClient calls (clients), and the error once it has returned
Put(st, k, wr, env) ==
    IF st.err # NoErr
    THEN st
    ELSE LET n == st.puts + 1
             b == createBlockBlob(k, wr.Gzip, IF env.failAt = n THEN env.failKind ELSE "none")
         IN  [st EXCEPT !.puts = n,
                        !.uploads = IF b.stored THEN Append(@, b.name) ELSE @,
                        !.err = b.err]

\* json.Marshal(r) and the upload of key + ".json" (lines 48-57)
PutJSON(st, key, i, wr, env) ==
    IF st.err # NoErr
    THEN st
    ELSE IF env.marshalFail = i
    THEN [st EXCEPT !.err = Errorf("Failed to Marshal to JSON", MarshalErr, "")]
    ELSE Put(st, key \o <<".json">>, wr, env)

\* the body of `for _, r := range rs` for the result of index i (lines 47-73)
WriteResult(st, r, i, wr, env) ==
    LET key == ReportKeyName(r)
        s1 == IF wr.FormatJSON THEN PutJSON(st, key, i, wr, env) ELSE st
        s2 == IF wr.FormatList THEN Put(s1, key \o <<"_short.txt">>, wr, env) ELSE s1
        s3 == IF wr.FormatFullText THEN Put(s2, key \o <<"_full.txt">>, wr, env) ELSE s2
    IN  s3

RECURSIVE WriteLoop(_, _, _, _, _)
WriteLoop(st, results, i, wr, env) ==
    IF i > Len(results) \/ st.err # NoErr
    THEN st
    ELSE WriteLoop(WriteResult(st, results[i], i, wr, env), results, i + 1, wr, env)

Progress(clients, err) == [uploads |-> <<>>, puts |-> 0, clients |-> clients, err |-> err]

\* Write without the `len(rs) == 0` return of lines 27-29
Write_NoEmptyCheck(wr, results, env) ==
    IF env.cliErr
    THEN Progress(1, ClientErr)
    ELSE IF Len(results) = 0
    THEN Progress(1, IF wr.FormatOneLineText
                     THEN [msg |-> "panic: index out of range", cause |-> "", path |-> ""]
                     ELSE NoErr)
    ELSE LET s0 == Progress(1, NoErr)
             s1 == IF wr.FormatOneLineText
                   THEN Put(s0, <<results[1].ScannedAt, "/summary.txt">>, wr, env)
                   ELSE s0
         IN  WriteLoop(s1, results, 1, wr, env)

\* AzureBlobWriter.Write(rs...)
Write(wr, results, env) ==
    IF Len(results) = 0
    THEN Progress(0, NoErr)
    ELSE IF env.cliErr
    THEN Progress(1, ClientErr)
    ELSE LET s0 == Progress(1, NoErr)
             s1 == IF wr.FormatOneLineText
                   THEN Put(s0, <<results[1].ScannedAt, "/summary.txt">>, wr, env)
                   ELSE s0
         IN  WriteLoop(s1, results, 1, wr, env)

\* CheckIfAzureContainerExists looking at the first listed container only
Check_FirstOnly(cliErr, listErr, containers) ==
    IF cliErr
    THEN ClientErr
    ELSE IF listErr
    THEN ListErr
    ELSE IF Len(containers) > 0 /\ containers[1] = ContainerName
    THEN NoErr
    ELSE [msg |-> "Container not found", cause |-> "", path |-> ContainerName]

\* CheckIfAzureContainerExists: its returned error; containers are the names
\* of r.Containers
CheckIfAzureContainerExists(cliErr, listErr, containers) ==
    IF cliErr
    THEN ClientErr
    ELSE IF listErr
    THEN ListErr
    ELSE IF \E i \in 1..Len(containers) : containers[i] = ContainerName
    THEN NoErr
    ELSE [msg |-> "Container not found", cause |-> "", path |-> ContainerName]

-----------------------------------------------------------------------------
(* State machine *)

Range(s) == {s[i] : i \in 1..Len(s)}

Count(s, k) == Cardinality({i \in 1..Len(s) : s[i] = k})

\* os.Stat's answers for a resource: only a sqlite3 resource has a local file
FileStates(dict) == IF dict.Type = "sqlite3" THEN BOOLEAN ELSE {FALSE}

NoClose == [attempts |-> <<>>, failed |-> {}, errs |-> <<>>]

NoFault == [cliErr |-> FALSE, failAt |-> 0, failKind |-> "upload", marshalFail |-> 0]

NotWritten == [done |-> FALSE, env |-> NoFault, puts |-> 0, clients |-> 0, err |-> NoErr]

NotChecked == [done |-> FALSE, cliErr |-> FALSE, listErr |-> FALSE, containers |-> <<>>,
               err |-> NoErr]

\* no report is being written: the state of the reporter during a detector run
AzureIdle ==
    /\ w = [FormatJSON |-> FALSE, FormatFullText |-> FALSE, FormatOneLineText |-> FALSE,
            FormatList |-> FALSE, Gzip |-> FALSE]
    /\ rs = <<>>
    /\ blobs = <<>>
    /\ writeOut = NotWritten
    /\ checkOut = NotChecked

Init ==
    /\ cnf \in { [CveDictCnf |-> Conf("cve", t1), OvalDictCnf |-> Conf("oval", t2),
                  GostCnf |-> Conf("gost", t3), ExploitCnf |-> Conf("exploit", t4),
                  MetasploitCnf |-> Conf("metasploit", t5)] :
                 t1 \in Types, t2 \in Types, t3 \in Types, t4 \in Types, t5 \in Types }
    /\ pc = "cve"
    /\ drivers = [k \in Kinds |-> Nil]
    /\ res = [k \in Kinds |-> NotCalled]
    /\ drvOut = [k \in Kinds |-> NotCalled]
    /\ fileExists = [k \in Kinds |-> "unknown"]
    /\ statCalls = [k \in Kinds |-> 0]
    /\ newDBCalls = [k \in Kinds |-> 0]
    /\ log = <<>>
    /\ ret = NotReturned
    /\ openHandles = {}
    /\ closeCalls = 0
    /\ closeAttempts = [k \in Kinds |-> 0]
    /\ lastClose = NoClose
    /\ AzureIdle

\* one resource of NewDBClient: the open routine ran with result o, NewDBClient
\* branched with b, and goes on to resource next (or builds the client and returns)
Step(k, next, exists, o, b) ==
    /\ fileExists' = [fileExists EXCEPT ![k] = IF exists THEN "exists" ELSE "missing"]
    /\ res' = [res EXCEPT ![k] = o.out]
    /\ drvOut' = [drvOut EXCEPT ![k] = o.drv]
    /\ statCalls' = [statCalls EXCEPT ![k] = @ + o.stat]
    /\ newDBCalls' = [newDBCalls EXCEPT ![k] = @ + o.newdb]
    /\ log' = log \o o.warn \o b.warn
    /\ openHandles' = openHandles \cup
                      (IF o.drv.called /\ o.drv.driver # Nil THEN {o.drv.driver} ELSE {})
    /\ drivers' = [drivers EXCEPT ![k] = o.out.driver]
    /\ IF b.abort
       THEN pc' = "returned" /\ ret' = b.ret
       ELSE IF next = "returned"
       THEN pc' = "returned" /\ ret' = Return(DBClient(drivers'), FALSE, NoErr)
       ELSE pc' = next /\ ret' = ret
    /\ UNCHANGED <<cnf, releaseVars, azureVars>>

NewDBClientCve ==
    /\ pc = "cve"
    /\ \E exists \in FileStates(cnf.CveDictCnf), drv \in DriverResults("cve") :
         LET o == NewCveDB(cnf, exists, drv)
         IN  Step("cve", "oval", exists, o, BranchCve(cnf, o.out))

NewDBClientOval ==
    /\ pc = "oval"
    /\ \E exists \in FileStates(cnf.OvalDictCnf), drv \in DriverResults("oval") :
         LET o == NewOvalDB(cnf, exists, drv)
         IN  Step("oval", "gost", exists, o, BranchOval(cnf, o.out))

NewDBClientGost ==
    /\ pc = "gost"
    /\ \E exists \in FileStates(cnf.GostCnf), drv \in DriverResults("gost") :
         LET o == NewGostDB(cnf, exists, drv)
         IN  Step("gost", "exploit", exists, o, BranchGost(cnf, o.out))

NewDBClientExploit ==
    /\ pc = "exploit"
    /\ \E exists \in FileStates(cnf.ExploitCnf), drv \in DriverResults("exploit") :
         LET o == NewExploitDB(cnf, exists, drv)
         IN  Step("exploit", "metasploit", exists, o, BranchExploit(cnf, o.out))

NewDBClientMetasploit ==
    /\ pc = "metasploit"
    /\ \E exists \in FileStates(cnf.MetasploitCnf), drv \in DriverResults("metasploit") :
         LET o == NewMetasploitDB(cnf, exists, drv)
         IN  Step("metasploit", "returned", exists, o, BranchMetasploit(cnf, o.out))

\* the caller releases the client NewDBClient returned
DBClientCloseDB ==
    /\ pc = "returned"
    /\ ret.dbclient # NilClient
    /\ closeCalls < MaxCloseCalls
    /\ \E failing \in SUBSET {k \in Kinds : drivers[k] # Nil} :
         LET closeErr == [k \in Kinds |-> k \in failing]
             c == CloseDB(ret.dbclient[1], closeErr)
             failed == {k \in Range(c.attempts) : closeErr[k]}
         IN  /\ closeCalls' = closeCalls + 1
             /\ closeAttempts' = [k \in Kinds |-> closeAttempts[k] + Count(c.attempts, k)]
             /\ lastClose' = [attempts |-> c.attempts, failed |-> failed, errs |-> c.errs]
             /\ openHandles' = openHandles \ {Handle(k) : k \in Range(c.attempts) \ failed}
    /\ UNCHANGED <<acquireVars, azureVars>>

Next ==
    \/ NewDBClientCve
    \/ NewDBClientOval
    \/ NewDBClientGost
    \/ NewDBClientExploit
    \/ NewDBClientMetasploit

\* one run of NewDBClient under every configuration, file system and driver
Spec == Init /\ [][Next]_vars

\* The states in which NewDBClient has returned a client: every combination of
\* present and absent slots (here reached with all five resources on sqlite3,
\* the file of an absent one missing, the open of a present one succeeding).
InitRelease ==
    \E opened \in SUBSET Kinds :
        LET missing == SelectSeq(Order, LAMBDA k : k \notin opened)
            d == [k \in Kinds |-> IF k \in opened THEN Handle(k) ELSE Nil]
        IN  /\ cnf = [CveDictCnf |-> Conf("cve", "sqlite3"),
                      OvalDictCnf |-> Conf("oval", "sqlite3"),
                      GostCnf |-> Conf("gost", "sqlite3"),
                      ExploitCnf |-> Conf("exploit", "sqlite3"),
                      MetasploitCnf |-> Conf("metasploit", "sqlite3")]
            /\ pc = "returned"
            /\ drivers = d
            /\ res = [k \in Kinds |-> Result(d[k], FALSE, NoErr)]
            /\ drvOut = [k \in Kinds |-> IF k \in opened
                                         THEN Result(Handle(k), FALSE, NoErr)
                                         ELSE NotCalled]
            /\ fileExists = [k \in Kinds |-> IF k \in opened THEN "exists" ELSE "missing"]
            /\ statCalls = [k \in Kinds |-> 1]
            /\ newDBCalls = [k \in Kinds |-> IF k \in opened THEN 1 ELSE 0]
            /\ log = [i \in 1..Len(missing) |->
                        Warn(missing[i], "file not found", SQLite3Path(missing[i]))]
            /\ ret = Return(DBClient(d), FALSE, NoErr)
            /\ openHandles = {Handle(k) : k \in opened}
            /\ closeCalls = 0
            /\ closeAttempts = [k \in Kinds |-> 0]
            /\ lastClose = NoClose
            /\ AzureIdle

NextRelease == DBClientCloseDB

\* the caller's releases of a returned client
SpecRelease == InitRelease /\ [][NextRelease]_vars

-----------------------------------------------------------------------------
(* The report writer's state machine *)

ScanResults == { [ScannedAt |-> "t1", ServerName |-> "a"],
                 [ScannedAt |-> "t2", ServerName |-> "b"] }

Writers == [FormatJSON : BOOLEAN, FormatFullText : BOOLEAN, FormatOneLineText : BOOLEAN,
            FormatList : BOOLEAN, Gzip : BOOLEAN]

\* the environments of one Write call: nothing fails, getBlobClient fails, the
\* n-th createBlockBlob call fails (in gz or in the upload), or json.Marshal
\* fails for the i-th result
Envs(results) ==
    {NoFault, [NoFault EXCEPT !.cliErr = TRUE]}
    \cup { [NoFault EXCEPT !.failAt = n, !.failKind = kind] :
             n \in 1..(1 + 3 * Len(results)), kind \in {"gz", "upload"} }
    \cup { [NoFault EXCEPT !.marshalFail = i] : i \in 1..Len(results) }

ContainerNames == {ContainerName, "other"}

InitAzure ==
    /\ cnf = [CveDictCnf |-> Conf("cve", "http"), OvalDictCnf |-> Conf("oval", "http"),
              GostCnf |-> Conf("gost", "http"), ExploitCnf |-> Conf("exploit", "http"),
              MetasploitCnf |-> Conf("metasploit", "http")]
    /\ pc = "cve"
    /\ drivers = [k \in Kinds |-> Nil]
    /\ res = [k \in Kinds |-> NotCalled]
    /\ drvOut = [k \in Kinds |-> NotCalled]
    /\ fileExists = [k \in Kinds |-> "unknown"]
    /\ statCalls = [k \in Kinds |-> 0]
    /\ newDBCalls = [k \in Kinds |-> 0]
    /\ log = <<>>
    /\ ret = NotReturned
    /\ openHandles = {}
    /\ closeCalls = 0
    /\ closeAttempts = [k \in Kinds |-> 0]
    /\ lastClose = NoClose
    /\ w \in Writers
    /\ rs \in UNION {[1..n -> ScanResults] : n \in 0..MaxResults}
    /\ blobs = <<>>
    /\ writeOut = NotWritten
    /\ checkOut = NotChecked

AzureBlobWriterWrite ==
    /\ ~writeOut.done
    /\ \E env \in Envs(rs) :
         LET o == Write(w, rs, env)
         IN  /\ blobs' = blobs \o o.uploads
             /\ writeOut' = [done |-> TRUE, env |-> env, puts |-> o.puts,
                             clients |-> o.clients, err |-> o.err]
    /\ UNCHANGED <<acquireVars, openHandles, releaseVars, w, rs, checkOut>>

AzureCheckContainer ==
    /\ ~checkOut.done
    /\ \E cliErr \in BOOLEAN, listErr \in BOOLEAN,
          containers \in UNION {[1..n -> ContainerNames] : n \in 0..MaxContainers} :
         /\ (cliErr \/ listErr) => containers = <<>>
         /\ ~(cliErr /\ listErr)
         /\ checkOut' = [done |-> TRUE, cliErr |-> cliErr, listErr |-> listErr,
                         containers |-> containers,
                         err |-> CheckIfAzureContainerExists(cliErr, listErr, containers)]
    /\ UNCHANGED <<acquireVars, openHandles, releaseVars, w, rs, blobs, writeOut>>

NextAzure ==
    \/ AzureBlobWriterWrite
    \/ AzureCheckContainer

\* one Write call and one container check, for every writer and input
SpecAzure == InitAzure /\ [][NextAzure]_vars

-----------------------------------------------------------------------------
(* Vocabulary of the properties *)

CnfOf(c, k) ==
    CASE k = "cve" -> c.CveDictCnf
      [] k = "oval" -> c.OvalDictCnf
      [] k = "gost" -> c.GostCnf
      [] k = "exploit" -> c.ExploitCnf
      [] k = "metasploit" -> c.MetasploitCnf

Slot(d, k) ==
    CASE k = "cve" -> d.CveDB
      [] k = "oval" -> d.OvalDB
      [] k = "gost" -> d.GostDB
      [] k = "exploit" -> d.ExploitDB
      [] k = "metasploit" -> d.MetasploitDB

Pos(k) == CHOOSE i \in 1..Len(Order) : Order[i] = k

Later(k) == {j \in Kinds : Pos(j) > Pos(k)}

Optional == Kinds \ {"cve"}

Last == Order[Len(Order)]

\* the outcomes of the per-resource open routine of kind k
Locked(k) == res[k].called /\ res[k].locked

OpenFailed(k) == res[k].called /\ ~res[k].locked /\ res[k].err # NoErr

\* kind k was neither probed nor opened
Untouched(k) ==
    /\ ~res[k].called
    /\ fileExists[k] = "unknown"
    /\ statCalls[k] = 0
    /\ newDBCalls[k] = 0
    /\ drvOut[k] = NotCalled

\* NewDBClient did not return at kind k: it went on to the next resource, or,
\* after the last one, returned the client
WentOnAfter(k) ==
    IF k = Last
    THEN pc = "returned" /\ ret.dbclient # NilClient /\ ~ret.locked /\ ret.err = NoErr
    ELSE pc = Order[Pos(k) + 1] \/ res[Order[Pos(k) + 1]].called

Returned == pc = "returned"

ReturnedClient == Returned /\ ret.dbclient # NilClient

LogOf(k) == SelectSeq(log, LAMBDA e : e.kind = k)

\* the name NewDBClient's Locked error gives kind k
LockedName(k) ==
    CASE k = "cve" -> "CveDB is locked"
      [] k = "oval" -> "OvalDB is locked"
      [] k = "gost" -> "gostDB is locked"
      [] k = "exploit" -> "exploitDB is locked"
      [] k = "metasploit" -> "metasploitDB is locked"

-----------------------------------------------------------------------------
(* C1: whenever NewDBClient has returned an error, no driver handle opened  *)
(* during that run is still open.                                            *)
C1_NoHandleOpenOnAbort ==
    (Returned /\ ret.err # NoErr) => openHandles = {}

(* C2: for each of the five kinds, if its open routine yields Locked then   *)
(* NewDBClient has returned a nil client, locked = true and a non-nil error, *)
(* and no later resource was probed or opened; and NewDBClient returns       *)
(* locked = true only if some open routine yielded Locked.                   *)
C2_LockedAbortsRun ==
    /\ \A k \in Kinds :
         Locked(k) =>
            /\ Returned
            /\ ret.dbclient = NilClient
            /\ ret.locked
            /\ ret.err # NoErr
            /\ \A j \in Later(k) : Untouched(j)
    /\ (Returned /\ ret.locked) => \E k \in Kinds : Locked(k)

C2_Witness ==
    /\ Locked("exploit")
    /\ Returned
    /\ drivers["cve"] # Nil
    /\ OpenFailed("oval")

(* C3: when NewDBClient returns because kind K is Locked, the error names   *)
(* kind K and the SQLite3Path configured for K itself.                      *)
C3_LockedErrorNamesOwnKindAndPath ==
    \A k \in Kinds :
        (Returned /\ Locked(k)) =>
            /\ ret.err.msg = LockedName(k)
            /\ ret.err.path = CnfOf(cnf, k).SQLite3Path

(* C4: if the CVE dictionary's open yields OpenFailed, NewDBClient has       *)
(* returned that error with a nil client and locked = false, and none of the *)
(* four Optional resources was probed or opened.                             *)
C4_CriticalOpenFailedAborts ==
    OpenFailed("cve") =>
        /\ Returned
        /\ ret = Return(NilClient, FALSE, res["cve"].err)
        /\ ret.err.cause = DriverErr("cve").msg
        /\ \A j \in Optional : Untouched(j)

C4_Witness ==
    /\ OpenFailed("cve")
    /\ cnf.CveDictCnf.Type = "sqlite3"
    /\ fileExists["cve"] = "exists"
    /\ Returned

(* C5: if an Optional resource's open yields OpenFailed, NewDBClient does    *)
(* not return there: the local for that kind is nil, exactly one warning is  *)
(* logged for it, the next resource is attempted, and when the run ends      *)
(* without a later Locked it returns a client with that slot nil, every      *)
(* resource attempted, locked = false and a nil error.                       *)
C5_OptionalOpenFailedDegrades ==
    \A k \in Optional :
        OpenFailed(k) =>
            /\ drivers[k] = Nil
            /\ Len(LogOf(k)) = 1
            /\ WentOnAfter(k)
            /\ (Returned /\ ~\E j \in Later(k) : Locked(j)) =>
                  /\ ret.dbclient # NilClient
                  /\ Slot(ret.dbclient[1], k) = Nil
                  /\ ~ret.locked
                  /\ ret.err = NoErr
                  /\ \A j \in Kinds : res[j].called

C5_Witness ==
    /\ OpenFailed("oval")
    /\ OpenFailed("metasploit")
    /\ ReturnedClient
    /\ ret.dbclient[1].GostDB # Nil
    /\ Len(log) = 2

(* C6: after the first DBClient.CloseDB returns, every slot of the client    *)
(* that holds a handle, of all five kinds, has had exactly one close attempt.*)
C6_EveryOpenedSlotClosedOnce ==
    closeCalls = 1 =>
        \A k \in Kinds :
            Slot(ret.dbclient[1], k) # Nil => closeAttempts[k] = 1

(* C7: a second DBClient.CloseDB on the same client makes no close attempt:  *)
(* over any sequence of CloseDB calls every handle is closed at most once.   *)
C7_SecondCloseIsNoOp ==
    /\ \A k \in Kinds : closeAttempts[k] <= 1
    /\ closeCalls >= 2 => lastClose.attempts = <<>>

(* C8: in a DBClient.CloseDB call the handles that get a close attempt are  *)
(* the same whichever closes fail, and the returned errs holds exactly one   *)
(* entry per close attempt that failed (none when no close failed).          *)
C8_CloseFailuresCollected ==
    closeCalls >= 1 =>
        /\ lastClose.attempts =
              CloseDB(ret.dbclient[1], [k \in Kinds |-> FALSE]).attempts
        /\ Len(lastClose.errs) = Cardinality(lastClose.failed)
        /\ \A k \in lastClose.failed :
              Cardinality({i \in 1..Len(lastClose.errs) :
                              lastClose.errs[i].cause = DriverErr(k).msg}) = 1

C8_Witness ==
    /\ closeCalls = 1
    /\ lastClose.failed = {"cve"}
    /\ lastClose.attempts = <<"cve", "oval">>
    /\ Len(lastClose.errs) = 1

(* C9: for every kind, when its Type is sqlite3 and its file does not exist, *)
(* the open routine returns (nil, false, nil) and the driver's NewDB is not  *)
(* called for that kind.                                                     *)
C9_MissingFileIsAbsent ==
    \A k \in Kinds :
        (CnfOf(cnf, k).Type = "sqlite3" /\ fileExists[k] = "missing") =>
            /\ res[k] = Result(Nil, FALSE, NoErr)
            /\ newDBCalls[k] = 0
            /\ drvOut[k] = NotCalled

C9_Witness ==
    /\ cnf.CveDictCnf.Type = "sqlite3"
    /\ fileExists["cve"] = "missing"
    /\ cnf.MetasploitCnf.Type = "sqlite3"
    /\ fileExists["metasploit"] = "missing"
    /\ Returned

(* C10: for every kind configured to fetch via HTTP, once NewDBClient has    *)
(* reached it the open routine has returned (nil, false, nil) without an     *)
(* os.Stat call, a driver NewDB call or a warning; the local and the         *)
(* client's slot for the kind are nil and NewDBClient did not return there.  *)
C10_RemoteIsSkipped ==
    \A k \in Kinds :
        (IsFetchViaHTTP(CnfOf(cnf, k)) /\ fileExists[k] # "unknown") =>
            /\ res[k] = Result(Nil, FALSE, NoErr)
            /\ statCalls[k] = 0
            /\ newDBCalls[k] = 0
            /\ drvOut[k] = NotCalled
            /\ LogOf(k) = <<>>
            /\ drivers[k] = Nil
            /\ WentOnAfter(k)
            /\ ReturnedClient => Slot(ret.dbclient[1], k) = Nil

C10_Witness ==
    /\ IsFetchViaHTTP(cnf.CveDictCnf)
    /\ IsFetchViaHTTP(cnf.GostCnf)
    /\ ReturnedClient
    /\ ret.dbclient[1].OvalDB # Nil

-----------------------------------------------------------------------------
\* the open routine of kind k returned a handle (the Opened outcome)
OpenedOutcome(k) ==
    res[k].called /\ res[k].driver # Nil /\ ~res[k].locked /\ res[k].err = NoErr

\* kind k ended NewDBClient's run: Locked, or the Critical resource failed
Aborting(k) == Locked(k) \/ (k = "cve" /\ OpenFailed(k))

Touched(k) == fileExists[k] # "unknown"

MissingFile(k) == CnfOf(cnf, k).Type = "sqlite3" /\ fileExists[k] = "missing"

(* C11: whenever NewDBClient returns without error, each slot of the client  *)
(* holds a handle iff that kind's open yielded Opened, and then it is the    *)
(* handle the driver returned for that kind; the Critical slot is nil only   *)
(* when the resource is fetched via HTTP or its file is missing; and when    *)
(* all five drivers opened their resource all five slots hold a handle.      *)
C11_ClientSlotsAreTheOpenedHandles ==
    (Returned /\ ret.err = NoErr) =>
        /\ ret.dbclient # NilClient
        /\ \A k \in Kinds :
              /\ Slot(ret.dbclient[1], k) # Nil <=> OpenedOutcome(k)
              /\ Slot(ret.dbclient[1], k) # Nil =>
                    /\ drvOut[k].called
                    /\ Slot(ret.dbclient[1], k) = drvOut[k].driver
                    /\ Slot(ret.dbclient[1], k) = Handle(k)
        /\ Slot(ret.dbclient[1], "cve") = Nil =>
              (IsFetchViaHTTP(cnf.CveDictCnf) \/ MissingFile("cve"))
        /\ (\A k \in Kinds : drvOut[k] = Result(Handle(k), FALSE, NoErr)) =>
              \A k \in Kinds : Slot(ret.dbclient[1], k) # Nil

C11_Witness ==
    /\ ReturnedClient
    /\ ret.dbclient[1].GostDB = Handle("gost")
    /\ ret.dbclient[1].ExploitDB = Nil
    /\ OpenFailed("exploit")
    /\ ret.dbclient[1].CveDB = Nil
    /\ MissingFile("cve")

C13_SequentialOneShot ==
    /\ \A k \in Kinds :
          /\ (Touched(k) \/ res[k].called \/ statCalls[k] > 0 \/ newDBCalls[k] > 0) =>
                \A j \in Kinds : Pos(j) < Pos(k) => (res[j].called /\ ~Aborting(j))
          /\ statCalls[k] <= 1
          /\ newDBCalls[k] <= 1
          /\ res[k].called <=> Touched(k)
    /\ pc # "returned" => (\A j \in Kinds : res[j].called <=> Pos(j) < Pos(pc))

C13_Witness ==
    /\ pc = "metasploit"
    /\ \A k \in Kinds \ {"metasploit"} : newDBCalls[k] = 1
    /\ OpenFailed("gost")

(* C14: in a NewDBClient run that returns a client, the number of warnings   *)
(* logged is the number of resources whose local file was missing plus the   *)
(* number of Optional resources whose open failed; per kind a missing file   *)
(* or an Optional open failure logs exactly one, a skipped or opened         *)
(* resource none.                                                            *)
C14_WarningCount ==
    ReturnedClient =>
        /\ Len(log) = Cardinality({k \in Kinds : MissingFile(k)})
                      + Cardinality({k \in Optional : OpenFailed(k)})
        /\ \A k \in Kinds :
              Len(LogOf(k)) = IF MissingFile(k) \/ (k \in Optional /\ OpenFailed(k))
                              THEN 1 ELSE 0

C14_Witness ==
    /\ ReturnedClient
    /\ MissingFile("cve")
    /\ MissingFile("metasploit")
    /\ OpenFailed("oval")
    /\ OpenedOutcome("gost")
    /\ IsFetchViaHTTP(cnf.ExploitCnf)
    /\ Len(log) = 3

(* C17: each open routine returns a non-nil handle only with locked = false  *)
(* and a nil error, and NewDBClient returns a non-nil client exactly when it *)
(* returns locked = false and a nil error.                                   *)
C17_ResultsConsistent ==
    /\ \A k \in Kinds :
          res[k].driver # Nil => (~res[k].locked /\ res[k].err = NoErr)
    /\ Returned => (ret.dbclient # NilClient <=> (~ret.locked /\ ret.err = NoErr))

C17_Witness ==
    /\ Returned
    /\ ret.dbclient = NilClient
    /\ ~ret.locked
    /\ ret.err # NoErr
    /\ drvOut["cve"].called

-----------------------------------------------------------------------------
(* Vocabulary of the report writer's properties *)

Written == writeOut.done

\* the name Write gives the object of one format of a result, or the summary
ObjectName(stem, suffix) ==
    IF w.Gzip THEN stem \o <<suffix, ".gz">> ELSE stem \o <<suffix>>

PerResultSuffixes ==
    (IF w.FormatJSON THEN <<".json">> ELSE <<>>)
    \o (IF w.FormatList THEN <<"_short.txt">> ELSE <<>>)
    \o (IF w.FormatFullText THEN <<"_full.txt">> ELSE <<>>)

SummaryNames ==
    IF w.FormatOneLineText /\ Len(rs) > 0
    THEN <<ObjectName(<<rs[1].ScannedAt>>, "/summary.txt")>>
    ELSE <<>>

RECURSIVE ResultNames(_)
ResultNames(i) ==
    IF i > Len(rs)
    THEN <<>>
    ELSE [j \in 1..Len(PerResultSuffixes) |->
             ObjectName(ReportKeyName(rs[i]), PerResultSuffixes[j])]
         \o ResultNames(i + 1)

\* every object of a complete Write, in the order summary, then per result
\* JSON, short list, full text
ExpectedUploads == SummaryNames \o ResultNames(1)

Uploads(name) == Cardinality({i \in 1..Len(blobs) : blobs[i] = name})

SameKey(i) == Cardinality({j \in 1..Len(rs) : ReportKeyName(rs[j]) = ReportKeyName(rs[i])})

(* C15: when Write is given a non-empty sequence and returns no error, it    *)
(* has uploaded one object per result per enabled per-result format, named   *)
(* key.json, key_short.txt, key_full.txt, and none for a disabled format,    *)
(* one summary object iff the one-line format is enabled, nothing else, and  *)
(* every name ends in ".gz" iff Gzip is set.                                 *)
C15_OneObjectPerResultAndFormat ==
    (Written /\ Len(rs) > 0 /\ writeOut.err = NoErr) =>
        /\ \A i \in 1..Len(rs) :
              /\ Uploads(ObjectName(ReportKeyName(rs[i]), ".json"))
                    = IF w.FormatJSON THEN SameKey(i) ELSE 0
              /\ Uploads(ObjectName(ReportKeyName(rs[i]), "_short.txt"))
                    = IF w.FormatList THEN SameKey(i) ELSE 0
              /\ Uploads(ObjectName(ReportKeyName(rs[i]), "_full.txt"))
                    = IF w.FormatFullText THEN SameKey(i) ELSE 0
        /\ Uploads(ObjectName(<<rs[1].ScannedAt>>, "/summary.txt"))
              = IF w.FormatOneLineText THEN 1 ELSE 0
        /\ Len(blobs) = Len(rs) * Len(PerResultSuffixes)
                        + (IF w.FormatOneLineText THEN 1 ELSE 0)
        /\ \A i \in 1..Len(blobs) : (blobs[i][Len(blobs[i])] = ".gz") <=> w.Gzip

C15_Witness ==
    /\ Written
    /\ writeOut.err = NoErr
    /\ Len(rs) = 2
    /\ rs[1] # rs[2]
    /\ w.FormatJSON /\ w.FormatList /\ w.FormatFullText /\ w.FormatOneLineText /\ w.Gzip
    /\ Len(blobs) = 7

(* C16: CheckIfAzureContainerExists returns no error iff the blob client was *)
(* created, the listing succeeded and the configured container name is the   *)
(* name of a listed container; when the name is not listed the error is      *)
(* "Container not found".                                                    *)
C16_ContainerCheck ==
    checkOut.done =>
        LET listed == \E i \in 1..Len(checkOut.containers) :
                          checkOut.containers[i] = ContainerName
        IN  /\ checkOut.err = NoErr <=> (~checkOut.cliErr /\ ~checkOut.listErr /\ listed)
            /\ (~checkOut.cliErr /\ ~checkOut.listErr /\ ~listed) =>
                  checkOut.err.msg = "Container not found"

C16_Witness ==
    /\ checkOut.done
    /\ checkOut.containers = <<"other", ContainerName>>
    /\ checkOut.err = NoErr

(* C18: Write uploads in the order summary, then per result JSON, short      *)
(* list, full text, and stops at the first failure: what is stored is a      *)
(* prefix of that order, the failing createBlockBlob call is the last one    *)
(* made, a failing json.Marshal is followed by no call, the error returned   *)
(* is that failure's, and without a failure everything is stored.            *)
C18_FailFastInOrder ==
    Written =>
        /\ Len(blobs) <= Len(ExpectedUploads)
        /\ blobs = SubSeq(ExpectedUploads, 1, Len(blobs))
        /\ writeOut.err = NoErr =>
              (blobs = ExpectedUploads /\ writeOut.puts = Len(blobs))
        /\ (writeOut.err # NoErr /\ writeOut.env.cliErr) =>
              (writeOut.err = ClientErr /\ writeOut.puts = 0 /\ blobs = <<>>)
        /\ (writeOut.err # NoErr /\ writeOut.env.failAt > 0) =>
              /\ writeOut.puts = writeOut.env.failAt
              /\ Len(blobs) = writeOut.puts - 1
              /\ Len(blobs) < Len(ExpectedUploads)
              /\ IF writeOut.env.failKind = "gz"
                 THEN writeOut.err = GzErr
                 ELSE writeOut.err.cause = UploadErr.msg
        /\ (writeOut.err # NoErr /\ writeOut.env.marshalFail > 0) =>
              /\ writeOut.puts = Len(blobs)
              /\ Len(blobs) < Len(ExpectedUploads)
              /\ writeOut.err.cause = MarshalErr.msg
              /\ ExpectedUploads[Len(blobs) + 1] =
                    ObjectName(ReportKeyName(rs[writeOut.env.marshalFail]), ".json")

C18_Witness ==
    /\ Written
    /\ Len(rs) = 2
    /\ w.FormatJSON /\ w.FormatList /\ w.FormatFullText /\ w.FormatOneLineText
    /\ writeOut.env.failAt = 3
    /\ writeOut.err # NoErr
    /\ Len(blobs) = 2

(* C19: Write called with no results returns nil without creating a blob     *)
(* client and without uploading anything, whatever the format flags and      *)
(* whatever the client or the storage would have answered.                   *)
C19_EmptyWriteDoesNothing ==
    (Written /\ rs = <<>>) =>
        /\ writeOut.err = NoErr
        /\ writeOut.clients = 0
        /\ writeOut.puts = 0
        /\ blobs = <<>>

C19_Witness ==
    /\ Written
    /\ rs = <<>>
    /\ w.FormatOneLineText
    /\ writeOut.env.cliErr

====
